---- MODULE Spec2Model ----
(***************************************************************************)
(* A model of the one-request-per-connection HTTP server of src/main.rs:   *)
(* the accept loop (main), the connection handler (process), the request   *)
(* parser (HttpRequest::from_byte_array), the response constructors and    *)
(* the serializer (impl Display for HttpResponse).                         *)
(*                                                                         *)
(* Bytes and chars are one-element strings ("G", " ", "\r", ...); a byte   *)
(* string or a Rust String is a sequence of them.  The bytes that have no  *)
(* string of their own are tokens: NUL (the byte 0 the read buffer is      *)
(* initialised with), VT (0x0B), and four bytes of 0x80 and above: xEF     *)
(* (the lead byte of a three-byte sequence), xBF and xBD (continuation     *)
(* bytes) and xFF (never valid in UTF-8).  The chars they can encode are   *)
(* U+FFFD (the replacement char), U+FFFF, U+FF7F and U+FF7D.               *)
(***************************************************************************)
EXTENDS Integers, Sequences, FiniteSets, TLC

VARIABLES
    directory,  \* Args.directory: Option<String>, fixed after startup
    clients,    \* the request each client sends, in the order they are accepted
    listener,   \* main's accept loop: "listening", or why main returned
    pc,         \* per connection: where its spawned task is
    nread,      \* per connection: what stream.read returned (-1: nothing yet / Err)
    fault,      \* per connection: why the task ended without Ok(())
    job,        \* per connection: the route process took, with its locals
    resp,       \* per connection: the HttpResponse built by process
    order,      \* per connection: the order HashMap iteration yields the headers
    sent,       \* per connection: response bytes the client has received
    fs,         \* the file system
    fpos,       \* per connection: the offset of the file it has open
    got,        \* per connection: the bytes read_to_string has read so far
    log,        \* history: the file operations that succeeded, in order
    seen,       \* history: Len(log) when the connection's response was decided
    reads,      \* history: per connection, the reads of its file and their time
    prior,      \* history: the connections that had completed when it was read
    logged      \* per connection: what became of the task's eprintln! (line 28)

vars == <<directory, clients, listener, pc, nread, fault, job, resp, order,
          sent, fs, fpos, got, log, seen, reads, prior, logged>>

---------------------------------------------------------------------------
(* Bounds and program constants *)

\* let mut buf = [0u8; 1024]
BufSize == 1024

\* how many connections the concurrent specification accepts
MaxConns == 2

\* in the concurrent specification, the most bytes by which a read that
\* returns data falls short of what the client sent (or of the buffer)
MaxShort == 0

\* a system call that transfers only part of what it was asked (a write to
\* the socket, a write to a file, a read of a file) stops within this many
\* bytes of the start of the whole transfer
MaxCut == 1

---------------------------------------------------------------------------
(* Bytes, chars and string literals *)

NUL == "NUL"
VT == "x0B"
InvalidByte == "xFF"
LeadByte == "xEF"
ContinuationBytes == {"xBF", "xBD"}
NonAsciiBytes == {InvalidByte, LeadByte} \cup ContinuationBytes
ReplacementChar == "uFFFD"
NonAsciiChars == {ReplacementChar, "uFFFF", "uFF7F", "uFF7D"}

\* char::encode_utf8
encode_utf8(ch) ==
    IF ch = ReplacementChar THEN <<"xEF", "xBF", "xBD">>
    ELSE IF ch = "uFFFF" THEN <<"xEF", "xBF", "xBF">>
    ELSE IF ch = "uFF7F" THEN <<"xEF", "xBD", "xBF">>
    ELSE IF ch = "uFF7D" THEN <<"xEF", "xBD", "xBD">>
    ELSE <<ch>>

\* the char a well-formed sequence xEF b2 b3 encodes
decode_utf8(b2, b3) ==
    IF b2 = "xBF" THEN (IF b3 = "xBD" THEN ReplacementChar ELSE "uFFFF")
    ELSE (IF b3 = "xBF" THEN "uFF7F" ELSE "uFF7D")

Utf8Replacement == encode_utf8(ReplacementChar)

\* char::is_whitespace, on the chars of the model's alphabet
WhiteSpace == {" ", "\t", "\n", VT, "\f", "\r"}
is_whitespace(ch) == ch \in WhiteSpace

CRLF == <<"\r", "\n">>
CRLFCRLF == <<"\r", "\n", "\r", "\n">>
GET == <<"G", "E", "T">>
POST == <<"P", "O", "S", "T">>
DELETE == <<"D", "E", "L", "E", "T", "E">>
Slash == <<"/">>
EchoPrefix == <<"/", "e", "c", "h", "o", "/">>
UserAgentPath == <<"/", "u", "s", "e", "r", "-", "a", "g", "e", "n", "t">>
FilesPrefix == <<"/", "f", "i", "l", "e", "s", "/">>
FilesSplit == <<"/", "f", "i", "l", "e", "s">>
Http11 == <<"H", "T", "T", "P", "/", "1", ".", "1">>
UserAgent == <<"U", "s", "e", "r", "-", "A", "g", "e", "n", "t">>
ContentType == <<"C", "o", "n", "t", "e", "n", "t", "-", "T", "y", "p", "e">>
ContentLength == <<"C", "o", "n", "t", "e", "n", "t", "-", "L", "e", "n", "g", "t", "h">>
TextPlain == <<"t", "e", "x", "t", "/", "p", "l", "a", "i", "n">>
OctetStream == <<"a", "p", "p", "l", "i", "c", "a", "t", "i", "o", "n", "/",
                 "o", "c", "t", "e", "t", "-", "s", "t", "r", "e", "a", "m">>
Ok200 == <<"2", "0", "0", " ", "O", "K">>
NotFound404 == <<"4", "0", "4", " ", "N", "o", "t", " ", "F", "o", "u", "n", "d">>
Created201 == <<"2", "0", "1", " ", "C", "r", "e", "a", "t", "e", "d">>

Min(S) == CHOOSE i \in S : \A j \in S : i <= j
Max(S) == CHOOSE i \in S : \A j \in S : i >= j

\* Option<T>
None == [some |-> FALSE]
Some(v) == [some |-> TRUE, val |-> v]

\* the outcome of a piece of code that may panic
Panic(msg) == [panicked |-> TRUE, msg |-> msg]

---------------------------------------------------------------------------
(* String and byte conversions of the standard library, as the code uses  *)
(* them                                                                    *)

\* The UTF-8 decoder behind from_utf8 and from_utf8_lossy.  A byte below 0x80
\* is the char it encodes; xEF with two continuation bytes is one char; every
\* other maximal ill-formed run (xEF with one continuation byte, a lone xEF, a
\* stray continuation byte, xFF) is an error, which the lossy decoder turns
\* into one U+FFFD.  `inside` holds the second and third bytes of the runs.
Utf8Chunks(bytes, high) ==
    LET second(i) == i > 1 /\ bytes[i - 1] = LeadByte /\ bytes[i] \in ContinuationBytes
        third(i) == /\ i > 2 /\ bytes[i - 2] = LeadByte
                    /\ bytes[i - 1] \in ContinuationBytes
                    /\ bytes[i] \in ContinuationBytes
        whole(i) == bytes[i] = LeadByte /\ i + 2 <= Len(bytes) /\ third(i + 2)
        inside == {i \in high : second(i) \/ third(i)}
        before(c) == c - 1 - Cardinality({d \in inside : d < c})
        src(k) == k + Cardinality({c \in inside : before(c) < k})
    IN  [valid |-> \A i \in high :
                      whole(i) \/ (second(i) /\ whole(i - 1)) \/ third(i),
         chars |-> [k \in 1..(Len(bytes) - Cardinality(inside)) |->
                      IF bytes[src(k)] \notin NonAsciiBytes THEN bytes[src(k)]
                      ELSE IF whole(src(k))
                      THEN decode_utf8(bytes[src(k) + 1], bytes[src(k) + 2])
                      ELSE ReplacementChar]]

HighBytes(bytes) == {i \in 1..Len(bytes) : bytes[i] \in NonAsciiBytes}

\* String::from_utf8_lossy
from_utf8_lossy(bytes) ==
    IF \A i \in 1..Len(bytes) : bytes[i] \notin NonAsciiBytes THEN bytes
    ELSE Utf8Chunks(bytes, HighBytes(bytes)).chars

\* str::len: the length in bytes of the UTF-8 encoding
len(s) == Len(s) + 2 * Cardinality({i \in 1..Len(s) : s[i] \in NonAsciiChars})

\* str::as_bytes / AsRef<[u8]>: the UTF-8 encoding of a String
as_bytes(s) ==
    LET R == {i \in 1..Len(s) : s[i] \in NonAsciiChars}
        start(i) == i + 2 * Cardinality({j \in R : j < i})
    IN  IF R = {} THEN s
        ELSE [k \in 1..(Len(s) + 2 * Cardinality(R)) |->
                LET at == {j \in R : start(j) <= k /\ k <= start(j) + 2}
                IN  IF at # {}
                    THEN encode_utf8(s[Min(at)])[k - start(Min(at)) + 1]
                    ELSE s[k - 2 * Cardinality({j \in R : start(j) + 2 < k})]]

\* String::from_utf8 as fs::read_to_string applies it to a file's bytes:
\* Err on any byte sequence that is not valid UTF-8.
from_utf8(bytes) ==
    IF \A i \in 1..Len(bytes) : bytes[i] \notin NonAsciiBytes
    THEN [ok |-> TRUE, val |-> bytes]
    ELSE IF ~Utf8Chunks(bytes, HighBytes(bytes)).valid THEN [ok |-> FALSE]
    ELSE [ok |-> TRUE, val |-> Utf8Chunks(bytes, HighBytes(bytes)).chars]

\* usize::to_string: the decimal digits
Digit(d) == <<"0", "1", "2", "3", "4", "5", "6", "7", "8", "9">>[d + 1]
RECURSIVE to_string(_)
to_string(n) == IF n < 10 THEN <<Digit(n)>> ELSE to_string(n \div 10) \o <<Digit(n % 10)>>

\* str::starts_with
starts_with(s, pat) == Len(s) >= Len(pat) /\ SubSeq(s, 1, Len(pat)) = pat

\* the positions at which pat occurs in s
Find(s, pat) ==
    {i \in 1..(Len(s) - Len(pat) + 1) :
        s[i] = pat[1] /\ \A k \in 2..Len(pat) : s[i + k - 1] = pat[k]}

\* str::split_once: split on the first occurrence of pat, None if there is none
split_once(s, pat) ==
    LET occ == Find(s, pat)
    IN  IF occ = {} THEN None
        ELSE Some(<<SubSeq(s, 1, Min(occ) - 1),
                    SubSeq(s, Min(occ) + Len(pat), Len(s))>>)

\* Option<(&str, &str)>::unwrap_or_default: ("", "") for None
unwrap_or_default(opt) == IF opt.some THEN opt.val ELSE <<(<<>>), (<<>>)>>

\* the maximal runs of chars of s that are not in seps, in order
Runs(s, seps) ==
    LET starts == {i \in 1..Len(s) : s[i] \notin seps /\ (i = 1 \/ s[i - 1] \in seps)}
        ends == {i \in 1..Len(s) :
                    s[i] \notin seps /\ (i = Len(s) \/ s[i + 1] \in seps)}
        kth(S, k) == CHOOSE i \in S : Cardinality({j \in S : j <= i}) = k
    IN  [k \in 1..Cardinality(starts) |-> SubSeq(s, kth(starts, k), kth(ends, k))]

\* str::split_whitespace, collected: the maximal runs of non-whitespace chars
split_whitespace(s) == Runs(s, WhiteSpace)

---------------------------------------------------------------------------
(* HttpRequest *)

\* chunks that take the value for the name and the name for the value
HeaderChunksSwapped(tokens) ==
    [k \in 1..(Len(tokens) \div 2) |-> <<tokens[2 * k], tokens[2 * k - 1]>>]

\* the (name, value) pairs .chunks(2).filter(|x| x.len() == 2) yields
HeaderChunks(tokens) ==
    [k \in 1..(Len(tokens) \div 2) |-> <<tokens[2 * k - 1], tokens[2 * k]>>]

\* .collect::<HashMap<_, _>>(): a later pair replaces an earlier one of the same key
CollectHashMap(pairs) ==
    [name \in {pairs[k][1] : k \in 1..Len(pairs)} |->
        pairs[Max({k \in 1..Len(pairs) : pairs[k][1] = name})][2]]

\* the panic of eprintln!, and so of dbg!, when the write to stderr fails
StderrPanic == "failed printing to stderr"

\* HttpRequest::from_byte_array; stderr_ok: the writes to stderr of its two
\* dbg! (line 192 and 194, after the headers are collected) succeed
from_byte_array(buf, stderr_ok) ==
    LET data == from_utf8_lossy(buf)
        split == unwrap_or_default(split_once(data, CRLFCRLF))
        parts == split_whitespace(split[1])
        body == split[2]
        chunks == HeaderChunks(SubSeq(parts, 4, Len(parts)))
        named == [k \in 1..Len(chunks) |-> split_once(chunks[k][1], <<":">>)]
    IN  IF Len(parts) < 1 THEN Panic("Request should contains verb")
        ELSE IF Len(parts) < 2 THEN Panic("Request should contains path")
        ELSE IF Len(parts) < 3 THEN Panic("Request should contains protocol")
        ELSE IF \E k \in 1..Len(chunks) : ~named[k].some
        THEN Panic("header name: unwrap on None")
        ELSE IF ~stderr_ok THEN Panic(StderrPanic)
        ELSE [panicked |-> FALSE,
              verb |-> parts[1],
              path |-> parts[2],
              protocol |-> parts[3],
              headers |-> CollectHashMap(
                  [k \in 1..Len(chunks) |-> <<named[k].val[1], chunks[k][2]>>]),
              body |-> body]

---------------------------------------------------------------------------
(* HttpResponse *)

EmptyHashMap == [name \in {} |-> <<>>]

\* HashMap::insert
insert(map, key, value) ==
    [name \in DOMAIN map \cup {key} |-> IF name = key THEN value ELSE map[name]]

\* a status text without the reason phrase
StatusTextNoReason(status) ==
    IF status \in {200, 404, 201} THEN Some(to_string(status)) ELSE None

\* the status text HttpResponse::new stores for a status code
StatusText(status) ==
    IF status = 200 THEN Some(Ok200)
    ELSE IF status = 404 THEN Some(NotFound404)
    ELSE IF status = 201 THEN Some(Created201)
    ELSE None

\* HttpResponse::new
new(body, protocol, status) ==
    IF ~StatusText(status).some THEN Panic("HTTP status code not supported")
    ELSE [panicked |-> FALSE,
          body |-> body,
          protocol |-> protocol,
          status |-> StatusText(status).val,
          headers |-> EmptyHashMap]

\* HttpResponse::prepare_plain_text_headers
prepare_plain_text_headers(self) ==
    [self EXCEPT !.headers =
        insert(insert(self.headers, ContentType, TextPlain),
               ContentLength, to_string(len(self.body)))]

\* HttpResponse::prepare_octet_stream_headers
prepare_octet_stream_headers(self) ==
    [self EXCEPT !.headers =
        insert(insert(self.headers, ContentType, OctetStream),
               ContentLength, to_string(len(self.body)))]

\* the orders in which HashMap::into_iter may yield the keys of a map
IterOrders(map) ==
    {iter \in [1..Cardinality(DOMAIN map) -> DOMAIN map] :
        \A i, j \in DOMAIN iter : iter[i] = iter[j] => i = j}

\* the for_each of fmt: one "\r\n<name>: <value>" per header, in iteration order
RECURSIVE for_each_header(_, _, _)
for_each_header(response, headers, iter) ==
    IF iter = <<>> THEN response
    ELSE for_each_header(
            response \o CRLF \o Head(iter) \o <<":", " ">> \o headers[Head(iter)],
            headers, Tail(iter))

\* a body part emitted whether or not the body is empty
fmt_body_unguarded(response, body) == response \o CRLFCRLF \o body

\* the body part of fmt
fmt_body(response, body) ==
    IF body # <<>> THEN response \o CRLFCRLF \o body ELSE response

\* impl fmt::Display for HttpResponse (to_string), for one iteration order
fmt(self, iter) ==
    fmt_body(for_each_header(self.protocol \o <<" ">> \o self.status,
                             self.headers, iter),
             self.body) \o CRLFCRLF

---------------------------------------------------------------------------
(* The file system, as process uses it.  A file or directory is known by   *)
(* the names that lead to it from the root; a path string is resolved to   *)
(* them as the operating system does (std::fs on Linux, no symbolic links).*)

File(bytes) == [kind |-> "file", bytes |-> bytes]
Dir == [kind |-> "dir"]

\* nothing but the root directory
NoFiles == [p \in {<<>>} |-> Dir]

IsDir(files, key) == key \in DOMAIN files /\ files[key].kind = "dir"

\* the names between the slashes of a path
components(path) == Runs(path, {"/"})

\* path resolution from the directory `cur`: every name but the last must be
\* a directory, "." stays, ".." goes up, no name is longer than 255 bytes
RECURSIVE Walk(_, _, _)
Walk(files, cur, names) ==
    IF names = <<>> THEN Some(cur)
    ELSE IF ~IsDir(files, cur) \/ len(Head(names)) > 255 THEN None
    ELSE IF Head(names) = <<".">> THEN Walk(files, cur, Tail(names))
    ELSE IF Head(names) = <<".", ".">>
    THEN Walk(files, SubSeq(cur, 1, Len(cur) - 1), Tail(names))
    ELSE Walk(files, Append(cur, Head(names)), Tail(names))

\* what an absolute path names, if the operating system can resolve it: not
\* with a NUL in it, and with a trailing slash only a directory
resolve(files, path) ==
    IF path = <<>> \/ \E i \in 1..Len(path) : path[i] = NUL THEN None
    ELSE IF ~Walk(files, <<>>, components(path)).some THEN None
    ELSE IF /\ path[Len(path)] = "/"
            /\ ~IsDir(files, Walk(files, <<>>, components(path)).val)
    THEN None
    ELSE Walk(files, <<>>, components(path))

\* Path::exists
exists(files, path) ==
    resolve(files, path).some /\ resolve(files, path).val \in DOMAIN files

\* File::open, the first step of fs::read_to_string: it fails on a path that
\* does not resolve and when the operating system refuses (io_ok = FALSE)
File_open(files, path, io_ok) ==
    IF ~io_ok \/ ~exists(files, path) THEN [ok |-> FALSE]
    ELSE [ok |-> TRUE, key |-> resolve(files, path).val]

\* one read system call on the open file `key` at offset `pos` that returns
\* the bytes up to offset `upto`
File_read(files, key, pos, upto) == SubSeq(files[key].bytes, pos + 1, upto)

\* fs::read_to_string with no other operation on the file meanwhile: open,
\* read to the end (a directory cannot be read), check for UTF-8
read_to_string(files, path, io_ok) ==
    IF ~File_open(files, path, io_ok).ok
       \/ IsDir(files, File_open(files, path, io_ok).key)
    THEN [ok |-> FALSE]
    ELSE from_utf8(files[File_open(files, path, io_ok).key].bytes)

\* the file an open that succeeds leaves: created if missing, emptied otherwise
truncated(files, key) ==
    [p \in DOMAIN files \cup {key} |-> IF p = key THEN File(<<>>) ELSE files[p]]

\* an open that creates a missing file and keeps what an existing file holds
File_create_no_trunc(files, path, io_ok) ==
    IF ~io_ok \/ ~resolve(files, path).some
       \/ IsDir(files, resolve(files, path).val)
    THEN [ok |-> FALSE, files |-> files]
    ELSE [ok |-> TRUE, key |-> resolve(files, path).val,
          files |-> IF resolve(files, path).val \in DOMAIN files THEN files
                    ELSE truncated(files, resolve(files, path).val)]

\* File::create, the first half of fs::write: open(O_WRONLY | O_CREAT |
\* O_TRUNC).  It fails on a path that does not resolve or names a directory
\* and when the operating system refuses (io_ok = FALSE); nothing changes then.
File_create(files, path, io_ok) ==
    IF ~io_ok \/ ~resolve(files, path).some
       \/ IsDir(files, resolve(files, path).val)
    THEN [ok |-> FALSE, files |-> files]
    ELSE [ok |-> TRUE, key |-> resolve(files, path).val,
          files |-> truncated(files, resolve(files, path).val)]

\* what a file that holds `old` holds after a write of `bytes` at offset
\* `at`: a write past the end of the file leaves zero bytes in between
Overwritten(old, at, bytes) ==
    IF at <= Len(old)
    THEN SubSeq(old, 1, at) \o bytes \o SubSeq(old, at + Len(bytes) + 1, Len(old))
    ELSE old \o [i \in 1..(at - Len(old)) |-> NUL] \o bytes

\* one write system call of File::write_all, the second half of fs::write:
\* `bytes` go into the open file `key` at the offset `at` of the descriptor
File_write(files, key, at, bytes) ==
    [files EXCEPT ![key] = File(Overwritten(files[key].bytes, at, bytes))]

---------------------------------------------------------------------------
(* process: from the request to the response *)

\* the text after the last "/echo/" of the path (rsplit_once)
echo_content_last(path) ==
    SubSeq(path, Max(Find(path, EchoPrefix)) + Len(EchoPrefix), Len(path))

\* the text after the first "/echo/" of the path
echo_content(path) == split_once(path, EchoPrefix).val[2]

\* format!("{}/{}", arg.directory.to_owned().unwrap(), filename)
path_str(dir, path) == dir \o <<"/">> \o split_once(path, FilesSplit).val[2]

\* a branch that builds its response without looking at the files
Respond(response) ==
    IF response.panicked THEN response
    ELSE [panicked |-> FALSE, kind |-> "respond", response |-> response]

\* the if / else-if chain of process: the branch taken for a parsed request,
\* with the locals of the branch; stderr_ok: the write to stderr of the dbg!
\* of the /files/ branches (line 62 and 75, before the directory is unwrapped)
\* succeeds
Route(request, dir, stderr_ok) ==
    IF request.verb = GET /\ request.path = Slash
    THEN Respond(new(<<>>, request.protocol, 200))
    ELSE IF request.verb = GET /\ starts_with(request.path, EchoPrefix)
    THEN Respond(prepare_plain_text_headers(
                    new(echo_content(request.path), request.protocol, 200)))
    ELSE IF request.verb = GET /\ request.path = UserAgentPath
    THEN IF UserAgent \notin DOMAIN request.headers
         THEN Panic("User-Agent: unwrap on None")
         ELSE Respond(prepare_plain_text_headers(
                        new(request.headers[UserAgent], request.protocol, 200)))
    ELSE IF request.verb = GET /\ starts_with(request.path, FilesPrefix)
    THEN IF ~stderr_ok THEN Panic(StderrPanic)
         ELSE IF ~dir.some THEN Panic("directory: unwrap on None")
         ELSE [panicked |-> FALSE, kind |-> "get_file",
               path |-> path_str(dir.val, request.path),
               protocol |-> request.protocol]
    ELSE IF request.verb = POST /\ starts_with(request.path, FilesPrefix)
    THEN IF ~stderr_ok THEN Panic(StderrPanic)
         ELSE IF ~dir.some THEN Panic("directory: unwrap on None")
         ELSE [panicked |-> FALSE, kind |-> "post_file",
               path |-> path_str(dir.val, request.path),
               contents |-> as_bytes(request.body),
               protocol |-> request.protocol]
    ELSE Respond(new(<<>>, request.protocol, 404))

\* GET /files/, line 70-71: the path does not exist
file_missing(protocol) == Respond(new(<<>>, protocol, 404))

\* GET /files/, line 67-69: the path exists and has been read
file_read(body, protocol) ==
    IF ~body.ok THEN Panic("Read file always sucuess")
    ELSE Respond(prepare_octet_stream_headers(new(body.val, protocol, 200)))

\* POST /files/, line 81: whatever fs::write returned
file_posted(protocol) == Respond(new(<<>>, protocol, 201))

\* let mut buf = [0u8; 1024]
ZeroBuffer == [i \in 1..BufSize |-> NUL]

\* buf after a read that returned the first n bytes of `bytes`
ReadBuffer(bytes, n) == SubSeq(bytes, 1, n) \o SubSeq(ZeroBuffer, n + 1, BufSize)

\* whether the writes to stderr succeed: those of the parser's dbg! and the
\* one of the /files/ branches
StderrOutcomes == [parser : BOOLEAN, route : BOOLEAN]
StderrOk == [parser |-> TRUE, route |-> TRUE]

\* process from the read to the branch it takes: parse the whole buffer, route
Handle(bytes, n, dir, stderr) ==
    LET request == from_byte_array(ReadBuffer(bytes, n), stderr.parser)
    IN  IF request.panicked THEN request ELSE Route(request, dir, stderr.route)

\* response.to_string().as_bytes(): what write_all is given
WireBytes(response, iter) == as_bytes(fmt(response, iter))

---------------------------------------------------------------------------
(* The clients: the requests that arrive on the accepted connections *)

Rep(ch, n) == [i \in 1..n |-> ch]

ServeDir == <<"/", "s", "r", "v">>
Srv == <<"s", "r", "v">>
ReportTxt == <<"r", "e", "p", "o", "r", "t", ".", "t", "x", "t">>
OldTxt == <<"o", "l", "d", ".", "t", "x", "t">>
BadTxt == <<"b", "a", "d", ".", "t", "x", "t">>
NoDirTxt == <<"n", "o", "d", "i", "r", "/", "w", ".", "t", "x", "t">>
UpOldTxt == <<".", ".", "/", "s", "r", "v", "/", ".", "/">> \o OldTxt
Hello == <<"h", "e", "l", "l", "o">>
Curl == <<"c", "u", "r", "l", "/", "8">>
Mozilla == <<"M", "o", "z", "i", "l", "l", "a", "/", "5", ".", "0", " ",
             "(", "X", "1", "1", ")">>
Host == <<"H", "o", "s", "t">>
Accept == <<"A", "c", "c", "e", "p", "t">>

\* a client's request: the three parts of the request line, the header lines,
\* whether the blank line that ends the head is sent, and the body
Req(method, target, version, headers, term, body) ==
    [method |-> method, target |-> target, version |-> version,
     headers |-> headers, term |-> term, body |-> body]

Hdr(name, value) == [name |-> name, value |-> value]

RECURSIVE HeaderLines(_)
HeaderLines(headers) ==
    IF headers = <<>> THEN <<>>
    ELSE Head(headers).name \o <<":", " ">> \o Head(headers).value \o CRLF
         \o HeaderLines(Tail(headers))

\* the bytes of a request on the wire (RFC 9112 framing)
Bytes(r) ==
    r.method \o <<" ">> \o r.target \o <<" ">> \o r.version \o CRLF
    \o HeaderLines(r.headers) \o (IF r.term THEN CRLF ELSE <<>>) \o r.body

Plain(method, target) == Req(method, target, Http11, <<>>, TRUE, <<>>)

\* the longest echo text whose request still fits the read buffer
EchoFit == BufSize - Len(Bytes(Plain(GET, EchoPrefix)))

\* the texts asked of /echo/: empty, short, containing "/echo/" again, with an
\* invalid byte, with a three-byte char, with a form feed, the longest that
\* fits the read buffer, and one as long as the buffer itself
EchoTexts ==
    {<<>>, <<"a", "b", "c">>, <<"x">> \o EchoPrefix \o <<"y">>, <<"a", InvalidByte>>,
     <<"xEF", "xBF", "xBF", "xBD">>, <<"a", "\f", "b">>,
     Rep("a", EchoFit), Rep("a", BufSize)}

\* the header blocks sent with GET /user-agent
UserAgentHeaders ==
    {<<Hdr(Host, <<"h", ":", "1">>), Hdr(UserAgent, Curl), Hdr(Accept, <<"*", "/", "*">>)>>,
     <<Hdr(UserAgent, Mozilla)>>,
     <<Hdr(UserAgent, <<"a", VT, "b">>)>>,
     <<Hdr(UserAgent, <<"a", "xEF", "xBF", "xBD">>)>>,
     <<Hdr(Accept, <<"a", ",", " ", "b">>), Hdr(UserAgent, Curl)>>,
     <<Hdr(UserAgent, <<>>), Hdr(Host, <<"h">>)>>,
     <<Hdr(Host, <<"h">>)>>}

PostReport(body) == Req(POST, FilesPrefix \o ReportTxt, Http11, <<>>, TRUE, body)
GetReport == Plain(GET, FilesPrefix \o ReportTxt)

\* the requests of the single-connection specification
AllRequests ==
    {Plain(GET, Slash), Plain(DELETE, Slash), Plain(POST, Slash),
     Req(GET, Slash, Http11, <<>>, FALSE, <<>>),
     Req(GET, Slash, Http11, <<Hdr(Host, <<"h">>)>>, FALSE, <<>>),
     Req(GET, <<>>, <<>>, <<>>, TRUE, <<>>),
     Req(GET, Slash, Http11, <<Hdr(Host, <<"a", " ", "b">>)>>, TRUE, <<>>),
     PostReport(Hello), PostReport(<<"h", InvalidByte>>), GetReport,
     Req(CRLF \o POST, FilesPrefix \o NoDirTxt, Http11, <<>>, TRUE, <<"W">>),
     Plain(POST, FilesPrefix \o OldTxt \o <<"/">>),
     Plain(GET, FilesPrefix \o OldTxt), Plain(GET, FilesPrefix \o BadTxt),
     Plain(GET, FilesPrefix \o UpOldTxt), Plain(GET, FilesPrefix \o <<NUL>>),
     Plain(GET, FilesPrefix),
     Plain(POST, FilesPrefix), Plain(DELETE, FilesPrefix \o OldTxt)}
    \cup {Plain(GET, EchoPrefix \o s) : s \in EchoTexts}
    \cup {Req(GET, EchoPrefix \o <<"a", "b", "c">>, Http11, h, TRUE, <<>>) :
            h \in {<<Hdr(Host, <<"h">>)>>, <<Hdr(Host, <<"h", InvalidByte>>)>>,
                   <<Hdr(Accept, <<"a", ",", " ", "b">>), Hdr(Host, <<"h">>)>>}}
    \cup {Req(GET, UserAgentPath, Http11, h, TRUE, <<>>) : h \in UserAgentHeaders}

\* the requests of the concurrent specification
ConcurrentRequests ==
    {PostReport(<<"h", "i">>), GetReport, Plain(GET, Slash),
     Req(GET, UserAgentPath, Http11, <<>>, TRUE, <<>>)}

\* the files when the server starts: the root, and with a serving directory
\* that directory, a file of valid UTF-8 and a file of invalid UTF-8 in it
InitFiles(dir) ==
    IF ~dir.some THEN NoFiles
    ELSE [p \in {<<>>, <<Srv>>, <<Srv, OldTxt>>, <<Srv, BadTxt>>} |->
            IF p = <<Srv, OldTxt>> THEN File(<<"v", "xEF", "xBD", "xBF">>)
            ELSE IF p = <<Srv, BadTxt>> THEN File(<<"v", "xEF", "xBF">>)
            ELSE Dir]

\* what one stream.read may return for a client that sends `bytes`: nothing
\* (the peer closed), or any number of the bytes sent that the buffer holds;
\* `short` bounds by how much a read that returns data falls short
ReadCounts(bytes, short) ==
    {n \in 0..Min({Len(bytes), BufSize}) :
        n = 0 \/ n >= Min({Len(bytes), BufSize}) - short}

\* where a system call that goes on from offset `pos` of a transfer that ends
\* at `end` may stop: at the end, or short of it within the first `cut` bytes
Stops(pos, end, cut) ==
    {p \in (pos + 1)..Min({end, cut}) : TRUE}
    \cup (IF end > pos THEN {end} ELSE {})

---------------------------------------------------------------------------
(* The state machine *)

Conns == DOMAIN clients

InitWith(requests, n) ==
    /\ directory \in {None, Some(ServeDir)}
    /\ clients \in UNION {[1..k -> requests] : k \in 1..n}
    /\ listener = "listening"
    /\ pc = [c \in DOMAIN clients |-> "pending"]
    /\ nread = [c \in DOMAIN clients |-> -1]
    /\ fault = [c \in DOMAIN clients |-> "none"]
    /\ job = [c \in DOMAIN clients |-> None]
    /\ resp = [c \in DOMAIN clients |-> None]
    /\ order = [c \in DOMAIN clients |-> <<>>]
    /\ sent = [c \in DOMAIN clients |-> <<>>]
    /\ fs = InitFiles(directory)
    /\ fpos = [c \in DOMAIN clients |-> 0]
    /\ got = [c \in DOMAIN clients |-> <<>>]
    /\ log = <<>>
    /\ seen = [c \in DOMAIN clients |-> 0]
    /\ reads = [c \in DOMAIN clients |-> <<>>]
    /\ prior = [c \in DOMAIN clients |-> {}]
    /\ logged = [c \in DOMAIN clients |-> "nothing"]

Init == InitWith(ConcurrentRequests, MaxConns)

InitRequests == InitWith(AllRequests, 1)

\* a spawned task whose error would end the accept loop
spawned_task_propagating(loop, result) ==
    IF result = "Err" THEN "task failed" ELSE loop

\* main, line 26-30: the spawned task logs an Err of process and ends; the
\* accept loop never looks at the task's result
spawned_task(loop, result) == loop

\* main, line 28: eprintln! prints the error, or panics in the task when the
\* write to stderr fails
eprintln(stderr_ok) == IF stderr_ok THEN "printed" ELSE "panicked"

\* main, line 23 and 26: accept succeeds, the connection gets its own task
AcceptOk(c) ==
    /\ listener = "listening"
    /\ pc[c] = "pending"
    /\ \A d \in Conns : d < c => pc[d] # "pending"
    /\ pc' = [pc EXCEPT ![c] = "read"]
    /\ UNCHANGED <<directory, clients, listener, nread, fault, job, resp, order,
                   sent, fs, fpos, got, log, seen, reads, prior, logged>>

\* main, line 23: accept fails, `?` returns the error from main and the
\* runtime shuts down: every task that waits in an await is dropped (a task
\* inside write_all with what it has written of its response so far); a task
\* that is running between its awaits goes on to its next await
AcceptErr ==
    /\ listener = "listening"
    /\ listener' = "accept failed"
    /\ pc' = [c \in Conns |-> IF pc[c] \in {"read", "write"} THEN "cancelled" ELSE pc[c]]
    /\ UNCHANGED <<directory, clients, nread, fault, job, resp, order, sent, fs,
                   fpos, got, log, seen, reads, prior, logged>>

\* process, line 36-39: the read fails, process returns the error
ReadErr(c, stderr_ok) ==
    /\ pc[c] = "read"
    /\ pc' = [pc EXCEPT ![c] = "failed"]
    /\ fault' = [fault EXCEPT ![c] = "read error"]
    /\ listener' = spawned_task(listener, "Err")
    /\ logged' = [logged EXCEPT ![c] = eprintln(stderr_ok)]
    /\ UNCHANGED <<directory, clients, nread, job, resp, order, sent, fs, fpos,
                   got, log, seen, reads, prior>>

\* the end of a branch of process: a panic ends the task (the runtime catches
\* it and the accept loop goes on); otherwise the response is built and
\* write_all awaited (line 85)
Decided(c, out) ==
    IF out.panicked
    THEN /\ pc' = [pc EXCEPT ![c] = "panicked"]
         /\ fault' = [fault EXCEPT ![c] = out.msg]
         /\ UNCHANGED <<resp, order, seen>>
    ELSE /\ pc' = [pc EXCEPT ![c] = "write"]
         /\ resp' = [resp EXCEPT ![c] = Some(out.response)]
         /\ \E iter \in IterOrders(out.response.headers) :
                order' = [order EXCEPT ![c] = iter]
         /\ seen' = [seen EXCEPT ![c] = Len(log)]
         /\ UNCHANGED fault

\* POST /files/, line 79: File::create has returned `opened`; fs::write goes
\* on to write the contents (nothing is left to do when there are none), or
\* returns the error, which process ignores
Created(c, out, opened) ==
    IF opened.ok
    THEN /\ job' = [job EXCEPT ![c] = Some([route |-> out, file |-> opened.key])]
         /\ fs' = opened.files
         /\ log' = Append(log, [conn |-> c, op |-> "create", file |-> opened.key,
                                at |-> 0, bytes |-> <<>>])
         /\ IF out.contents = <<>>
            THEN Decided(c, file_posted(out.protocol))
            ELSE /\ pc' = [pc EXCEPT ![c] = "write_file"]
                 /\ UNCHANGED <<fault, resp, order, seen>>
    ELSE /\ job' = [job EXCEPT ![c] = Some([route |-> out, file |-> <<>>])]
         /\ Decided(c, file_posted(out.protocol))
         /\ UNCHANGED <<fs, log>>

\* GET /files/, line 67: the path exists and File::open has returned `opened`;
\* fs::read_to_string goes on to read the file, or returns the error, on
\* which expect panics
Opened(c, out, opened) ==
    IF opened.ok
    THEN /\ job' = [job EXCEPT ![c] = Some([route |-> out, file |-> opened.key])]
         /\ pc' = [pc EXCEPT ![c] = "read_file"]
         /\ UNCHANGED <<fault, resp, order, seen>>
    ELSE /\ job' = [job EXCEPT ![c] = Some([route |-> out, file |-> <<>>])]
         /\ Decided(c, file_read([ok |-> FALSE], out.protocol))

\* process, line 41-84, once the parser has returned and the branch is chosen
\* (`out`), up to the first operations on the file system: Path::exists and
\* File::open for GET /files/, File::create for POST /files/
Routing(c, out) ==
    IF out.panicked
    THEN Decided(c, out) /\ UNCHANGED <<job, fs, log>>
    ELSE IF out.kind = "post_file"
    THEN \E io_ok \in BOOLEAN : Created(c, out, File_create(fs, out.path, io_ok))
    ELSE IF out.kind = "get_file" /\ exists(fs, out.path)
    THEN /\ \E io_ok \in BOOLEAN : Opened(c, out, File_open(fs, out.path, io_ok))
         /\ UNCHANGED <<fs, log>>
    ELSE /\ job' = [job EXCEPT ![c] = Some([route |-> out, file |-> <<>>])]
         /\ Decided(c, IF out.kind = "respond" THEN out
                       ELSE file_missing(out.protocol))
         /\ UNCHANGED <<fs, log>>

\* process, line 36-79: the read returns n bytes; the buffer is parsed and the
\* request routed, up to the await of write_all or, in the /files/ branches,
\* past the opening of the file
ReadOk(c, n, stderr) ==
    /\ pc[c] = "read"
    /\ nread' = [nread EXCEPT ![c] = n]
    /\ prior' = [prior EXCEPT ![c] = {d \in Conns : pc[d] = "done"}]
    /\ Routing(c, Handle(Bytes(clients[c]), n, directory, stderr))
    /\ UNCHANGED <<directory, clients, listener, sent, fpos, got, reads, logged>>

\* GET /files/, line 67: a read system call of fs::read_to_string returns the
\* bytes the file holds now from the offset of the descriptor up to `upto`
FsReadSome(c, upto) ==
    /\ pc[c] = "read_file"
    /\ ~IsDir(fs, job[c].val.file)
    /\ got' = [got EXCEPT ![c] = @ \o File_read(fs, job[c].val.file, fpos[c], upto)]
    /\ fpos' = [fpos EXCEPT ![c] = upto]
    /\ reads' = [reads EXCEPT ![c] =
                    Append(@, [seen |-> Len(log), from |-> fpos[c], to |-> upto])]
    /\ UNCHANGED <<directory, clients, listener, pc, nread, fault, job, resp,
                   order, sent, fs, log, seen, prior, logged>>

\* GET /files/, line 67-69: a read system call finds no byte at the offset of
\* the descriptor: fs::read_to_string returns what it has read if that is
\* UTF-8, and the 200 response is built from it
FsReadEnd(c) ==
    /\ pc[c] = "read_file"
    /\ ~IsDir(fs, job[c].val.file)
    /\ fpos[c] >= Len(fs[job[c].val.file].bytes)
    /\ Decided(c, file_read(from_utf8(got[c]), job[c].val.route.protocol))
    /\ UNCHANGED <<directory, clients, listener, nread, job, sent, fs, fpos,
                   got, log, reads, prior, logged>>

\* GET /files/, line 67: a read system call fails (always on a directory):
\* fs::read_to_string returns the error and expect panics
FsReadErr(c) ==
    /\ pc[c] = "read_file"
    /\ Decided(c, file_read([ok |-> FALSE], job[c].val.route.protocol))
    /\ UNCHANGED <<directory, clients, listener, nread, job, sent, fs, fpos,
                   got, log, reads, prior, logged>>

\* POST /files/, line 79-81: a write system call of fs::write puts the
\* contents up to offset `upto` into the file; after the last of them the 201
\* response is built
FsWriteSome(c, upto) ==
    /\ pc[c] = "write_file"
    /\ fs' = File_write(fs, job[c].val.file, fpos[c],
                        SubSeq(job[c].val.route.contents, fpos[c] + 1, upto))
    /\ log' = Append(log, [conn |-> c, op |-> "write", file |-> job[c].val.file,
                           at |-> fpos[c],
                           bytes |-> SubSeq(job[c].val.route.contents,
                                            fpos[c] + 1, upto)])
    /\ fpos' = [fpos EXCEPT ![c] = upto]
    /\ IF upto = Len(job[c].val.route.contents)
       THEN Decided(c, file_posted(job[c].val.route.protocol))
       ELSE UNCHANGED <<pc, fault, resp, order, seen>>
    /\ UNCHANGED <<directory, clients, listener, nread, job, sent, got, reads,
                   prior, logged>>

\* POST /files/, line 79-81: a write system call fails; the file keeps what
\* has been written, `let _ =` drops the error and the 201 response is built
FsWriteErr(c) ==
    /\ pc[c] = "write_file"
    /\ Decided(c, file_posted(job[c].val.route.protocol))
    /\ UNCHANGED <<directory, clients, listener, nread, job, sent, fs, fpos,
                   got, log, reads, prior, logged>>

\* process, line 85-86: a write of write_all sends the response up to offset
\* `upto`; after the last byte process returns Ok, before it write_all waits
\* for the socket again
WriteSome(c, upto) ==
    /\ pc[c] = "write"
    /\ sent' = [sent EXCEPT ![c] = SubSeq(WireBytes(resp[c].val, order[c]), 1, upto)]
    /\ IF upto = Len(WireBytes(resp[c].val, order[c]))
       THEN /\ pc' = [pc EXCEPT ![c] = "done"]
            /\ listener' = spawned_task(listener, "Ok")
       ELSE UNCHANGED <<pc, listener>>
    /\ UNCHANGED <<directory, clients, nread, fault, job, resp, order, fs, fpos,
                   got, log, seen, reads, prior, logged>>

\* process, line 85: a write of write_all fails, process returns the error;
\* the client keeps what was sent before
WriteAllErr(c, stderr_ok) ==
    /\ pc[c] = "write"
    /\ pc' = [pc EXCEPT ![c] = "failed"]
    /\ fault' = [fault EXCEPT ![c] = "write error"]
    /\ listener' = spawned_task(listener, "Err")
    /\ logged' = [logged EXCEPT ![c] = eprintln(stderr_ok)]
    /\ UNCHANGED <<directory, clients, nread, job, resp, order, sent, fs, fpos,
                   got, log, seen, reads, prior>>

\* main has returned: a task that reaches the await of write_all after that
\* is dropped there
Dropped(c) ==
    /\ listener = "accept failed"
    /\ pc[c] = "write"
    /\ pc' = [pc EXCEPT ![c] = "cancelled"]
    /\ UNCHANGED <<directory, clients, listener, nread, fault, job, resp, order,
                   sent, fs, fpos, got, log, seen, reads, prior, logged>>

\* the steps of the accept loop and of the spawned tasks, with socket reads
\* that fall short by at most `short` bytes and partial transfers that stop
\* within the first `cut` bytes
Steps(short, cut) ==
    \/ \E c \in Conns : AcceptOk(c)
    \/ AcceptErr
    \/ \E c \in Conns : \E stderr_ok \in BOOLEAN : ReadErr(c, stderr_ok)
    \/ \E c \in Conns : \E n \in ReadCounts(Bytes(clients[c]), short) :
           \E stderr \in StderrOutcomes : ReadOk(c, n, stderr)
    \/ \E c \in {d \in Conns : pc[d] = "read_file" /\ ~IsDir(fs, job[d].val.file)} :
           \E upto \in Stops(fpos[c], Len(fs[job[c].val.file].bytes), cut) :
               FsReadSome(c, upto)
    \/ \E c \in Conns : FsReadEnd(c)
    \/ \E c \in Conns : FsReadErr(c)
    \/ \E c \in {d \in Conns : pc[d] = "write_file"} :
           \E upto \in Stops(fpos[c], Len(job[c].val.route.contents), cut) :
               FsWriteSome(c, upto)
    \/ \E c \in Conns : FsWriteErr(c)
    \/ \E c \in {d \in Conns : pc[d] = "write"} :
           \E upto \in Stops(Len(sent[c]), Len(WireBytes(resp[c].val, order[c])), cut) :
               WriteSome(c, upto)
    \/ \E c \in Conns : \E stderr_ok \in BOOLEAN : WriteAllErr(c, stderr_ok)
    \/ \E c \in Conns : Dropped(c)

Next == Steps(MaxShort, MaxCut)

\* a read of the socket may return any number of the bytes sent
NextRequests == Steps(BufSize, MaxCut)

\* connections handled concurrently, few kinds of request
Spec == Init /\ [][Next]_vars

\* one connection, every kind of request
SpecRequests == InitRequests /\ [][NextRequests]_vars

---------------------------------------------------------------------------
(* What the claims speak of *)

\* the handler of c read the client's whole request in its one read
ReadWhole(c) == nread[c] = Len(Bytes(clients[c]))

\* the one read returned as much of the request as the buffer holds
ReadFilled(c) == nread[c] = Min({Len(Bytes(clients[c])), BufSize})

\* the task of c ended without Ok(()): a panic or an Err of process
Failed(c) == pc[c] \in {"panicked", "failed"}

NoWhitespace(s) == \A i \in 1..Len(s) : ~is_whitespace(s[i])
Ascii(s) == \A i \in 1..Len(s) : s[i] \notin NonAsciiBytes \cup NonAsciiChars

\* the number a string of decimal digits denotes
RECURSIVE Decimal(_)
Decimal(digits) ==
    IF digits = <<>> THEN 0
    ELSE 10 * Decimal(SubSeq(digits, 1, Len(digits) - 1))
         + (CHOOSE d \in 0..9 : Digit(d) = digits[Len(digits)])

ParserPanics ==
    {"Request should contains verb", "Request should contains path",
     "Request should contains protocol", "header name: unwrap on None"}

\* the files that the logged operations `ops`, in order, leave of `files`: an
\* open leaves its file empty, a write puts its bytes at its offset over what
\* the file holds
RECURSIVE Replay(_, _)
Replay(files, ops) ==
    IF ops = <<>> THEN files
    ELSE Replay([p \in DOMAIN files \cup {Head(ops).file} |->
                    IF p # Head(ops).file THEN files[p]
                    ELSE IF Head(ops).op = "create" THEN File(<<>>)
                    ELSE File(Overwritten(files[p].bytes, Head(ops).at,
                                          Head(ops).bytes))],
                Tail(ops))

\* the files as they were after the first n logged operations
FilesAt(n) == Replay(InitFiles(directory), SubSeq(log, 1, n))

\* the files as they were when the response of c was decided
FilesSeen(c) == FilesAt(seen[c])

\* what the reads `rs` of the file `key` returned if each of them returned
\* what the file held, at the offsets of the read, when it was made
RECURSIVE ChunksOf(_, _)
ChunksOf(key, rs) ==
    IF rs = <<>> THEN <<>>
    ELSE SubSeq(FilesAt(Head(rs).seen)[key].bytes, Head(rs).from + 1, Head(rs).to)
         \o ChunksOf(key, Tail(rs))

\* the outcome of the branch `out` of process for a request that is handled
\* with nothing else going on, the files being `files`
Serve(out, files) ==
    IF out.panicked \/ out.kind = "respond" THEN out
    ELSE IF out.kind = "post_file" THEN file_posted(out.protocol)
    ELSE IF exists(files, out.path)
    THEN file_read(read_to_string(files, out.path, TRUE), out.protocol)
    ELSE file_missing(out.protocol)

\* the outcome of the branch `out` that the handler of c took, given the
\* files as it found them: for GET /files/ whether the path existed and the
\* bytes its reads of the file returned
Served(c, out) ==
    IF out.panicked \/ out.kind # "get_file" THEN Serve(out, InitFiles(directory))
    ELSE IF ~exists(FilesSeen(c), out.path) THEN file_missing(out.protocol)
    ELSE file_read(from_utf8(ChunksOf(job[c].val.file, reads[c])), out.protocol)

\* the response the handler of c builds from what it read when the files are
\* `files`; None when it panics
ResponseOf(out) == IF out.panicked THEN None ELSE Some(out.response)
ResponseWith(c, files) ==
    ResponseOf(Serve(Handle(Bytes(clients[c]), nread[c], directory, StderrOk),
                     files))

---------------------------------------------------------------------------
(* C1 *)

\* C1 (as claimed): with a serving directory, once a connection's
\* POST /files/report.txt with body B has completed with its file written, and
\* no other write to that file follows, a later connection's
\* GET /files/report.txt gets 200, Content-Type application/octet-stream,
\* Content-Length = length of B and a body that is B byte for byte.
C1_RoundTrip ==
    \A p, g \in Conns :
        ( /\ directory.some
          /\ clients[p] = PostReport(clients[p].body)
          /\ ReadWhole(p) /\ pc[p] = "done"
          /\ clients[g] = GetReport
          /\ ReadWhole(g) /\ pc[g] = "done" /\ p \in prior[g]
          /\ \E i \in 1..Len(log) :
                /\ log[i].conn = p /\ log[i].op = "write"
                /\ log[i].at + Len(log[i].bytes) = Len(job[p].val.route.contents)
          /\ \A j \in 1..Len(log) :
                log[j].file = job[p].val.file => log[j].conn = p )
        => /\ resp[g].val.status = Ok200
           /\ DOMAIN resp[g].val.headers = {ContentType, ContentLength}
           /\ resp[g].val.headers[ContentType] = OctetStream
           /\ Decimal(resp[g].val.headers[ContentLength]) = Len(clients[p].body)
           /\ as_bytes(resp[g].val.body) = clients[p].body

---------------------------------------------------------------------------
(* C2 *)

\* C2 (as claimed): no transport error (accept, read or write failure) is
\* fatal to the Server Loop: the accept loop is still running after it, and
\* only the affected connection is dropped.
C2_TransportErrorsNotFatal ==
    /\ listener = "listening"
    /\ \A c \in Conns : pc[c] # "cancelled"

---------------------------------------------------------------------------
(* C3 *)

\* the accept loop has not been ended by the failure of a connection's task
LoopSurvivesTasks == listener \in {"listening", "accept failed"}

\* what the connections that have not failed have done to the files, of the
\* first n operations
OpsOfUnfailed(n) == SelectSeq(SubSeq(log, 1, n), LAMBDA e : ~Failed(e.conn))

\* C3 (as claimed): when the handling of a connection fails, the Server Loop
\* keeps accepting and every other connection still receives the response it
\* would have received had the failing connections not existed, that is with
\* none of their writes in the file system.
C3_AsIfFailedNeverExisted ==
    /\ LoopSurvivesTasks
    /\ \A c \in Conns :
          pc[c] = "done" =>
             resp[c] = ResponseWith(c, Replay(InitFiles(directory),
                                              OpsOfUnfailed(seen[c])))

\* the outcome of c follows from the branch `out` that its own request takes
\* when its writes to stderr succeed, from the files as it found them and from
\* the fate of its own writes to stderr: the response it has built is the one
\* of that branch; it has panicked for a failed write to stderr before
\* building a response or touching a file, or else only where that branch
\* panics or its own read of the file failed
FromOwnRequest(c, out) ==
    /\ resp[c].some => resp[c] = ResponseOf(Served(c, out))
    /\ (pc[c] = "panicked" /\ fault[c] # StderrPanic) =>
          \/ out.panicked /\ out.msg = fault[c]
          \/ ~out.panicked /\ out.kind = "get_file"
                /\ fault[c] = "Read file always sucuess"
    /\ fault[c] = StderrPanic =>
          /\ pc[c] = "panicked" /\ ~resp[c].some /\ sent[c] = <<>>
          /\ out.panicked => out.msg \notin ParserPanics

\* C3 (amended): when the handling of a connection fails, the Server Loop
\* keeps accepting, and a connection that failed by a panic or a read error
\* has changed no file.  Every other connection gets the outcome of its own
\* request, given the files as it finds them and the fate of its own writes
\* to stderr, which all tasks share: when a dbg! write fails its handler
\* panics and sends nothing; otherwise it panics only where its own request
\* or its own read of the file makes it, and the response it builds is the
\* one its request gets from the files (for GET /files/<name>: whether the
\* path exists when it looks, and the bytes its reads return, each read
\* returning what the file holds when it is made).  The files include what a
\* POST did before its response write failed.
C3_FailureIsolation ==
    /\ LoopSurvivesTasks
    /\ \A c \in Conns :
          /\ (Failed(c) /\ fault[c] # "write error") =>
                \A i \in 1..Len(log) : log[i].conn # c
          /\ FromOwnRequest(c, Handle(Bytes(clients[c]), nread[c], directory,
                                      StderrOk))

\* C3's case: a connection has failed while another one, which looked at the
\* files after it, has completed with a response
C3_Witness ==
    \E c, d \in Conns :
        /\ Failed(d) /\ pc[c] = "done" /\ resp[c].some
        /\ nread[d] >= 0 /\ seen[c] > 0 /\ log[1].conn = d

---------------------------------------------------------------------------
(* C10 *)

\* C10 (as claimed): the response on each connection is determined by its own
\* request bytes and the serving-directory configuration alone: it is the
\* response the request gets on a server on which no other connection has
\* done anything.
C10_OwnRequestAlone ==
    \A c \in Conns :
        resp[c].some => resp[c] = ResponseWith(c, InitFiles(directory))

\* C10 (amended): connections share the files and the standard error stream.
\* The files are what the opens and writes of the POST /files/ requests, in
\* the order they happened, have made of the initial files.  A handler whose
\* dbg! write to stderr fails panics and sends no response.  Otherwise the
\* response to a request other than GET /files/<name> is determined by the
\* connection's own request bytes and the configuration alone, and the
\* response to GET /files/<name> by these and the files as it finds them:
\* whether the path exists when it looks, and the bytes its reads return, each
\* read returning what the file holds when it is made (a file that a POST has
\* opened and not yet written is empty).
C10_SharedFilesAndStderr ==
    /\ fs = Replay(InitFiles(directory), log)
    /\ \A c \in Conns :
          FromOwnRequest(c, Handle(Bytes(clients[c]), nread[c], directory,
                                   StderrOk))

\* C10's case: a GET /files/<name> answered 200 with the empty file that
\* another connection's POST has opened and not yet written
C10_Witness ==
    \E c, d \in Conns :
        /\ c # d /\ pc[c] = "done" /\ clients[c] = GetReport
        /\ pc[d] = "write_file" /\ seen[c] > 0 /\ log[seen[c]].conn = d
        /\ resp[c].val.status = Ok200 /\ resp[c].val.body = <<>>

---------------------------------------------------------------------------
(* C4 *)

StatusTexts == {Ok200, Created201, NotFound404}

\* the bytes are a whole response: a protocol token, a space, one of the three
\* status texts, the end of the line, and the closing "\r\n\r\n"
WellFormedFrom(bytes, spaces) ==
    /\ spaces # {} /\ Min(spaces) > 1
    /\ \E st \in StatusTexts :
          starts_with(SubSeq(bytes, Min(spaces) + 1, Len(bytes)), st \o CRLF)
    /\ Len(bytes) >= 4 /\ SubSeq(bytes, Len(bytes) - 3, Len(bytes)) = CRLFCRLF
WellFormed(bytes) == WellFormedFrom(bytes, Find(bytes, <<" ">>))

IsProperPrefix(s, t) == Len(s) < Len(t) /\ SubSeq(t, 1, Len(s)) = s

\* C4 (as claimed): on every connection the client observes either one whole
\* well-formed response with status 200 OK, 201 Created or 404 Not Found, or
\* no response bytes at all; never a partial response.
C4_WholeOrNothing ==
    \A c \in Conns : sent[c] = <<>> \/ WellFormed(sent[c])

\* write_all did not complete: it failed, or its task was dropped
WriteCutShort(c) ==
    fault[c] = "write error" \/ (pc[c] = "cancelled" /\ resp[c].some)

\* C4 (amended): on every connection the client observes one whole well-formed
\* response with status 200 OK, 201 Created or 404 Not Found when process
\* returns Ok; a proper prefix of such a response (possibly empty) while
\* write_all is at work and when it does not complete (it fails, or its task
\* is dropped when main returns); and no bytes at all in every other case.
\* No other status and no second response is ever written.
C4_WholeOrPrefix ==
    \A c \in Conns :
        /\ pc[c] = "done" =>
              /\ WellFormed(sent[c])
              /\ sent[c] = WireBytes(resp[c].val, order[c])
        /\ (pc[c] = "write" \/ WriteCutShort(c)) =>
              /\ WellFormed(WireBytes(resp[c].val, order[c]))
              /\ IsProperPrefix(sent[c], WireBytes(resp[c].val, order[c]))
        /\ (pc[c] \notin {"done", "write"} /\ ~WriteCutShort(c)) => sent[c] = <<>>

\* C4's case: a write_all that failed after some bytes of the response
C4_Witness ==
    \E c \in Conns : fault[c] = "write error" /\ sent[c] # <<>>

---------------------------------------------------------------------------
(* C5 and C6 *)

\* every header line is "Name: value" with a name free of colons and
\* whitespace and a non-empty value free of whitespace
TidyHeaders(r) ==
    \A k \in 1..Len(r.headers) :
        /\ r.headers[k].name # <<>> /\ NoWhitespace(r.headers[k].name)
        /\ \A i \in 1..Len(r.headers[k].name) : r.headers[k].name[i] # ":"
        /\ r.headers[k].value # <<>> /\ NoWhitespace(r.headers[k].value)

\* every header value is valid UTF-8
ValidValues(r) == \A k \in 1..Len(r.headers) : from_utf8(r.headers[k].value).ok

\* the handler of c panicked in a dbg! and no response was built or sent
PanickedPrinting(c) ==
    pc[c] = "panicked" /\ fault[c] = StderrPanic /\ ~resp[c].some /\ sent[c] = <<>>

HeadersNamed(r, name) == {k \in 1..Len(r.headers) : r.headers[k].name = name}

IsUserAgentRequest(r) ==
    /\ r.method = GET /\ r.target = UserAgentPath /\ r.version = Http11 /\ r.term
    /\ HeadersNamed(r, UserAgent) # {}

UserAgentAnswered(c) ==
    \A k \in HeadersNamed(clients[c], UserAgent) :
        /\ resp[c].some
        /\ resp[c].val.status = Ok200
        /\ as_bytes(resp[c].val.body) = clients[c].headers[k].value

\* C5 (as claimed): every GET /user-agent that carries a header
\* User-Agent: <value>, whatever the value and the other headers are, gets
\* status 200 and a body equal to <value>.
C5_AnyUserAgent ==
    \A c \in Conns :
        (IsUserAgentRequest(clients[c]) /\ ReadWhole(c)) => UserAgentAnswered(c)

\* C5 (amended): a GET /user-agent that the handler reads whole in its one
\* read, whose header lines are each "Name: value" with a name free of colons
\* and whitespace and a non-empty value free of whitespace and invalid UTF-8,
\* and which carries exactly one User-Agent header, gets status 200 and a body
\* equal to that header's value when the handler's dbg! writes to stderr
\* succeed; when one fails the handler panics and no response is sent.
C5_TidyUserAgent ==
    \A c \in Conns :
        ( /\ IsUserAgentRequest(clients[c]) /\ ReadWhole(c)
          /\ TidyHeaders(clients[c]) /\ ValidValues(clients[c])
          /\ Cardinality(HeadersNamed(clients[c], UserAgent)) = 1 )
        => IF fault[c] = StderrPanic THEN PanickedPrinting(c)
           ELSE UserAgentAnswered(c)

\* C5's case: a User-Agent header between two other headers, answered
C5_Witness ==
    \E c \in Conns :
        /\ IsUserAgentRequest(clients[c]) /\ TidyHeaders(clients[c])
        /\ Len(clients[c].headers) = 3 /\ HeadersNamed(clients[c], UserAgent) = {2}
        /\ pc[c] = "done" /\ resp[c].val.body = Curl

EchoText(r) == SubSeq(r.target, Len(EchoPrefix) + 1, Len(r.target))

IsEchoRequest(r) ==
    /\ r.method = GET /\ starts_with(r.target, EchoPrefix) /\ r.version = Http11
    /\ r.term
    /\ Ascii(EchoText(r)) /\ NoWhitespace(EchoText(r))

EchoAnswered(c) ==
    /\ resp[c].some
    /\ resp[c].val.status = Ok200
    /\ resp[c].val.body = EchoText(clients[c])
    /\ DOMAIN resp[c].val.headers = {ContentType, ContentLength}
    /\ resp[c].val.headers[ContentType] = TextPlain
    /\ Decimal(resp[c].val.headers[ContentLength]) = Len(EchoText(clients[c]))

\* C6 (as claimed): for every ASCII string s without whitespace, of any
\* length, GET /echo/s gets status 200, body s, Content-Type text/plain and
\* Content-Length = length of s (the read returning all the buffer can hold).
C6_AnyEcho ==
    \A c \in Conns :
        (IsEchoRequest(clients[c]) /\ ReadFilled(c)) => EchoAnswered(c)

\* C6 (amended): for every ASCII string s without whitespace (empty, or
\* containing "/echo/" again) such that the whole request, through its blank
\* line, is at most 1024 bytes and is returned by the handler's one read, and
\* whose header lines, if any, are each "Name: value" with a name free of
\* colons and whitespace and a non-empty whitespace-free value, GET /echo/s
\* gets status 200, body s, Content-Type text/plain and Content-Length =
\* length of s when the handler's dbg! writes to stderr succeed; when one
\* fails the handler panics and no response is sent.
C6_EchoThatFits ==
    \A c \in Conns :
        (IsEchoRequest(clients[c]) /\ ReadWhole(c) /\ TidyHeaders(clients[c]))
        => IF fault[c] = StderrPanic THEN PanickedPrinting(c)
           ELSE EchoAnswered(c)

\* C6's case: the longest text that fits the read buffer, echoed
C6_Witness ==
    \E c \in Conns :
        /\ IsEchoRequest(clients[c]) /\ Len(Bytes(clients[c])) = BufSize
        /\ pc[c] = "done" /\ Len(resp[c].val.body) = EchoFit

---------------------------------------------------------------------------
(* C7 *)

RECURSIVE HeaderBlockLen(_, _)
HeaderBlockLen(headers, names) ==
    IF names = {} THEN 0
    ELSE LET name == CHOOSE x \in names : TRUE
         IN  Len(CRLF) + Len(as_bytes(name)) + 2 + Len(as_bytes(headers[name]))
             + HeaderBlockLen(headers, names \ {name})

\* `bytes` is the wire form of response r: the status line, each header once
\* as a line "<name>: <value>" in any order, then "\r\n\r\n" and the body when
\* the body is not empty, then the closing "\r\n\r\n"
SerializedAs(r, bytes, statusLine, blockLen) ==
    /\ starts_with(bytes, statusLine)
    /\ \A name \in DOMAIN r.headers :
          Cardinality(Find(SubSeq(bytes, Len(statusLine) + 1,
                                  Len(statusLine) + blockLen),
                           CRLF \o as_bytes(name) \o <<":", " ">>
                                \o as_bytes(r.headers[name]))) = 1
    /\ SubSeq(bytes, Len(statusLine) + blockLen + 1, Len(bytes)) =
          IF r.body # <<>> THEN CRLFCRLF \o as_bytes(r.body) \o CRLFCRLF
          ELSE CRLFCRLF
    /\ (r.status = Ok200 /\ r.body = <<>> /\ DOMAIN r.headers = {}) =>
          bytes = as_bytes(r.protocol) \o <<" ">> \o Ok200 \o CRLFCRLF

\* C7: the bytes written for a response are exactly its status line
\* "<protocol> <code> <reason>", each header of the map exactly once as a
\* "<name>: <value>" line in any order, a blank line and the body when the body
\* is not empty, and a trailing "\r\n\r\n"; a 200 with empty body and no
\* headers is exactly "<protocol> 200 OK\r\n\r\n".
C7_Serialization ==
    \A c \in Conns :
        pc[c] = "done" =>
            SerializedAs(resp[c].val, sent[c],
                         as_bytes(resp[c].val.protocol \o <<" ">> \o resp[c].val.status),
                         HeaderBlockLen(resp[c].val.headers,
                                        DOMAIN resp[c].val.headers))

\* C7's case: a written response with both headers and a non-empty body,
\* Content-Length iterated first
C7_Witness ==
    \E c \in Conns :
        /\ pc[c] = "done" /\ resp[c].val.body # <<>>
        /\ order[c] = <<ContentLength, ContentType>>

---------------------------------------------------------------------------
(* C8 and C9 *)

\* C8 (as claimed): when the bytes handed to the parser hold no "\r\n\r\n",
\* the whole buffer is the head: method, path and protocol are its first three
\* whitespace-delimited tokens and the request is routed, so the parser does
\* not fail for want of one of them when the buffer has three tokens.
C8_NoSeparatorWholeBufferIsHead ==
    \A c \in Conns :
        ( /\ nread[c] >= 0
          /\ Find(ReadBuffer(Bytes(clients[c]), nread[c]), CRLFCRLF) = {}
          /\ Len(split_whitespace(
                   from_utf8_lossy(ReadBuffer(Bytes(clients[c]), nread[c])))) >= 3 )
        => /\ fault[c] \notin ParserPanics
           /\ resp[c].some
           /\ resp[c].val.protocol =
                 split_whitespace(
                     from_utf8_lossy(ReadBuffer(Bytes(clients[c]), nread[c])))[3]

\* C9 (as claimed): the handler reads once; when that read returns zero bytes
\* or fails, process returns an error to its caller without parsing the
\* buffer, routing or writing a response.
C9_EmptyReadIsAnError ==
    \A c \in Conns :
        (nread[c] = 0 \/ fault[c] = "read error") =>
            /\ pc[c] = "failed"
            /\ fault[c] \notin ParserPanics
            /\ ~resp[c].some
            /\ sent[c] = <<>>

====
